---- MODULE Spec2Model ----
(***************************************************************************)
(* Model of src/LWE.cc: the LWE IoT point-to-point simulation driver.      *)
(*                                                                         *)
(*   LoadMetricsFromCSV  - reads lwe_performance_results.csv into          *)
(*                         g_metrics (column averages)                     *)
(*   main                - schedules one UDP client per IoT node, runs the *)
(*                         simulation engine, aggregates the flow monitor  *)
(*                         statistics and appends a row to                 *)
(*                         lwe_ns3_results.csv                             *)
(*   RxCallback          - counts packets arriving at the UDP server       *)
(*                                                                         *)
(* C++ doubles are modelled by exact rationals <<num, den>> (den > 0, in   *)
(* lowest terms) extended by Inf == <<1,0>> and NaN == <<0,0>> for the     *)
(* results of IEEE division by zero.  Rounding is not modelled.            *)
(* Text is modelled as tuples of one-character strings.                    *)
(***************************************************************************)
EXTENDS Integers, Sequences, FiniteSets, TLC

VARIABLES
    \* ---- process state of one program run --------------------------------
    pc,                     \* position of the run in LoadMetricsFromCSV / main
    g_metrics,              \* LweMetrics g_metrics
    g_totalPacketsSent,     \* uint32_t g_totalPacketsSent
    g_totalPacketsReceived, \* uint32_t g_totalPacketsReceived
    \* ---- LoadMetricsFromCSV ----------------------------------------------
    csvExists,              \* whether lwe_performance_results.csv can be opened
    csvLines,               \* its lines (each a tuple of characters)
    pos,                    \* number of lines consumed by std::getline
    total_time, total_memory, total_energy, count,
    \* ---- main ------------------------------------------------------------
    nIoTNodes, simTime,     \* command line values --nodes, --time
    i,                      \* loop index of the client loop
    clientStart,            \* clientStart[k+1]: start time given to node k
    clientSize,             \* clientSize[k+1]: PacketSize given to node k
    flowTx,                 \* engine: nodes whose client has sent its packet
    flowRx,                 \* engine: node -> [rxBytes, delaySum] seen by FlowMonitor
    appRx,                  \* engine: nodes whose packet reached the UdpServer
    stats,                  \* monitor->GetFlowStats(), in FlowId order
    fi,                     \* number of flows consumed by the statistics loop
    totalThroughput, totalDelay, totalRxPackets, totalTxPackets,
    avgDelay, pdr, totalEnergy,
    divZero,                \* a division with a zero divisor has been evaluated
    \* ---- lwe_ns3_results.csv and the runs appending to it ----------------
    resultsExists,          \* whether lwe_ns3_results.csv exists
    resultsFile,            \* the lines of the file on disk
    wpc,                    \* per run: position in the "Save CSV" block
    newFile,                \* per run: bool newFile
    outbuf,                 \* per run: lines held in the ofstream buffer
    filePos,                \* per run: write position of the stream (in lines)
    runOrder                \* runs in the order they opened the file

loadVars   == <<csvExists, csvLines, pos, total_time, total_memory,
                total_energy, count>>
mainVars   == <<nIoTNodes, simTime, i, clientStart, clientSize>>
engineVars == <<flowTx, flowRx, appRx>>
aggVars    == <<stats, fi, totalThroughput, totalDelay, totalRxPackets,
                totalTxPackets, avgDelay, pdr, totalEnergy, divZero>>
writerVars == <<resultsExists, resultsFile, wpc, newFile, outbuf, filePos,
                runOrder>>
counters   == <<g_totalPacketsSent, g_totalPacketsReceived>>
vars == <<pc, g_metrics, counters, loadVars, mainVars, engineVars, aggVars,
          writerVars>>

(***************************************************************************)
(* Bounds of the model.                                                    *)
(***************************************************************************)
MaxRows  == 2   \* data rows in the profile CSV
MaxNodes == 3   \* largest --nodes value
MaxFlows == 2   \* flow records handed to the statistics loop on its own
NumRuns  == 3   \* program runs appending to the results file

(***************************************************************************)
(* double arithmetic                                                       *)
(***************************************************************************)
Abs(x) == IF x < 0 THEN -x ELSE x

RECURSIVE GCD(_, _)
GCD(a, b) == IF b = 0 THEN a ELSE GCD(b, a % b)

Rat(n, d) ==
    LET g == GCD(Abs(n), Abs(d))
        s == IF d < 0 THEN -1 ELSE 1
    IN  <<(s * n) \div g, (s * d) \div g>>

FromInt(n) == <<n, 1>>
Inf == <<1, 0>>
NaN == <<0, 0>>
IsFinite(a) == a[2] # 0

DAdd(a, b) ==
    IF IsFinite(a) /\ IsFinite(b)
    THEN Rat(a[1] * b[2] + b[1] * a[2], a[2] * b[2])
    ELSE IF a = NaN \/ b = NaN THEN NaN ELSE Inf

DMul(a, b) ==
    IF IsFinite(a) /\ IsFinite(b)
    THEN Rat(a[1] * b[1], a[2] * b[2])
    ELSE IF a = NaN \/ b = NaN \/ a[1] = 0 \/ b[1] = 0 THEN NaN ELSE Inf

\* IEEE division: x/0 is inf (nan for 0/0); no trap is raised
DDiv(a, b) ==
    IF ~IsFinite(a) THEN a
    ELSE IF b[1] = 0 THEN (IF a[1] = 0 THEN NaN ELSE Inf)
    ELSE Rat(a[1] * b[2], a[2] * b[1])

DLess(a, b) == IsFinite(a) /\ IsFinite(b) /\ a[1] * b[2] < b[1] * a[2]

(***************************************************************************)
(* struct LweMetrics and its default member initialisers                   *)
(***************************************************************************)
DefaultMetrics ==
    [avg_computation_time_ms |-> Rat(1, 2),
     avg_memory_kb           |-> FromInt(12),
     avg_energy_mj           |-> Rat(1, 2),
     key_size_bytes          |-> 256,
     public_data_bytes       |-> 16640]

(***************************************************************************)
(* Text helpers: std::getline(ss, item, ',') and std::stod                 *)
(***************************************************************************)
Digits == <<"0", "1", "2", "3", "4", "5", "6", "7", "8", "9">>
IsDigit(c) == \E k \in 1..10 : Digits[k] = c
DigitVal(c) == (CHOOSE k \in 1..10 : Digits[k] = c) - 1

\* the inner while loop of lines 45-47: items are cut at each ',', and a
\* final getline that extracts no character fails, so an empty last item
\* (and an empty line) adds nothing to the row
RECURSIVE SplitFrom(_, _, _, _)
SplitFrom(line, k, item, row) ==
    IF k > Len(line)
    THEN (IF item = <<>> THEN row ELSE Append(row, item))
    ELSE IF line[k] = ","
         THEN SplitFrom(line, k + 1, <<>>, Append(row, item))
         ELSE SplitFrom(line, k + 1, Append(item, line[k]), row)

Split(line) == SplitFrom(line, 1, <<>>, <<>>)

RECURSIVE SkipWs(_, _)
SkipWs(s, k) == IF k <= Len(s) /\ s[k] = " " THEN SkipWs(s, k + 1) ELSE k

RECURSIVE DigitsEnd(_, _)
DigitsEnd(s, k) ==
    IF k <= Len(s) /\ IsDigit(s[k]) THEN DigitsEnd(s, k + 1) ELSE k

RECURSIVE DigitsValue(_, _, _, _)
DigitsValue(s, k, e, acc) ==
    IF k >= e THEN acc ELSE DigitsValue(s, k + 1, e, 10 * acc + DigitVal(s[k]))

\* std::stod on the model's alphabet: leading blanks are skipped, an optional
\* '-' and the longest run of digits are converted, the rest of the string is
\* ignored; with no digit to convert it throws std::invalid_argument
Stod(s) ==
    LET a   == SkipWs(s, 1)
        neg == a <= Len(s) /\ s[a] = "-"
        b   == IF neg THEN a + 1 ELSE a
        e   == DigitsEnd(s, b)
    IN  IF e = b
        THEN [ok |-> FALSE, val |-> 0]
        ELSE [ok |-> TRUE,
              val |-> (IF neg THEN -1 ELSE 1) * DigitsValue(s, b, e, 0)]

RowValid(row) == Len(row) >= 6

\* mutant of RowTime: the memory column is read for the time
RowTimeWrongColumn(row) == Stod(row[3])

\* the three std::stod calls of lines 50-52, on row[1], row[2], row[5]
RowTime(row)   == Stod(row[2])
RowMemory(row) == Stod(row[3])
RowEnergy(row) == Stod(row[6])
RowParses(row) == RowTime(row).ok /\ RowMemory(row).ok /\ RowEnergy(row).ok

(***************************************************************************)
(* The profile CSVs of the model                                           *)
(***************************************************************************)
RECURSIVE Join(_)
Join(fields) ==
    IF Len(fields) = 0 THEN <<>>
    ELSE IF Len(fields) = 1 THEN fields[1]
    ELSE fields[1] \o <<",">> \o Join(Tail(fields))

HeaderLines ==
    { Join(<< <<"r">>, <<"t">>, <<"m">>, <<"k">>, <<"p">>, <<"e">> >>),
      Join(<< <<"0">>, <<"9">>, <<"9">>, <<"0">>, <<"0">>, <<"9">> >>) }

RowLines ==
    { Join(<< <<"a">>, <<"1">>, <<"1","0">>, <<"b">>, <<"c">>, <<"2">> >>),
      Join(<< <<"a">>, <<"3">>, <<"2","0">>, <<"b">>, <<"c">>, <<"4">> >>),
      Join(<< <<"a">>, <<"2">>, <<"4">>, <<"b">>, <<"c">>, <<"6">>, <<"z">> >>),
      Join(<< <<"a">>, <<"1">>, <<"2">> >>),
      Join(<< <<"a">>, <<"1">>, <<"2">>, <<"b">>, <<"c">>, <<>> >>),
      <<>>,
      Join(<< <<"a">>, <<"x">>, <<"2">>, <<"b">>, <<"c">>, <<"3">> >>),
      Join(<< <<"a">>, <<"1">>, <<>>, <<"b">>, <<"c">>, <<"3">> >>),
      Join(<< <<"a">>, <<"1">>, <<"2">>, <<"b">>, <<"c">>, <<"x">> >>),
      Join(<< <<"a">>, <<"2","x">>, <<" ","4">>, <<"b">>, <<"c">>, <<"-","2">> >>) }

RECURSIVE SeqsUpTo(_, _)
SeqsUpTo(S, n) ==
    IF n = 0 THEN {<<>>}
    ELSE LET shorter == SeqsUpTo(S, n - 1)
         IN  shorter \cup {Append(q, x) : q \in shorter, x \in S}

CsvFiles ==
    {<<>>} \cup {<<h>> \o rows : h \in HeaderLines, rows \in SeqsUpTo(RowLines, MaxRows)}

(***************************************************************************)
(* LoadMetricsFromCSV                                                      *)
(***************************************************************************)
restOfRun == <<counters, mainVars, engineVars, aggVars, writerVars>>

\* lines 28-32: the file cannot be opened; warn and return
LoadOpenFail ==
    /\ pc = "open"
    /\ ~csvExists
    /\ pc' = "returned"
    /\ UNCHANGED <<g_metrics, loadVars, restOfRun>>

\* lines 28-29: the file is open
LoadOpenOk ==
    /\ pc = "open"
    /\ csvExists
    /\ pc' = "header"
    /\ UNCHANGED <<g_metrics, loadVars, restOfRun>>

\* lines 34-38: the first line is read and dropped, the sums start at 0
LoadSkipHeader ==
    /\ pc = "header"
    /\ pos' = (IF Len(csvLines) >= 1 THEN 1 ELSE 0)
    /\ total_time' = 0
    /\ total_memory' = 0
    /\ total_energy' = 0
    /\ count' = 0
    /\ pc' = "rows"
    /\ UNCHANGED <<g_metrics, csvExists, csvLines, restOfRun>>

\* lines 40-55, a row of at least 6 fields whose conversions succeed
LoadRowValid ==
    /\ pc = "rows"
    /\ pos < Len(csvLines)
    /\ LET row == Split(csvLines[pos + 1])
       IN  /\ RowValid(row)
           /\ RowParses(row)
           /\ total_time' = total_time + RowTime(row).val
           /\ total_memory' = total_memory + RowMemory(row).val
           /\ total_energy' = total_energy + RowEnergy(row).val
           /\ count' = count + 1
    /\ pos' = pos + 1
    /\ UNCHANGED <<pc, g_metrics, csvExists, csvLines, restOfRun>>

\* lines 40-49, 54-55: a row of fewer than 6 fields
LoadRowShort ==
    /\ pc = "rows"
    /\ pos < Len(csvLines)
    /\ ~RowValid(Split(csvLines[pos + 1]))
    /\ pos' = pos + 1
    /\ UNCHANGED <<pc, g_metrics, csvExists, csvLines, total_time, total_memory,
                   total_energy, count, restOfRun>>

\* lines 49-52: std::stod throws std::invalid_argument; nothing catches it,
\* neither here nor in main, so std::terminate ends the process
LoadRowThrow ==
    /\ pc = "rows"
    /\ pos < Len(csvLines)
    /\ LET row == Split(csvLines[pos + 1])
       IN  /\ RowValid(row)
           /\ ~RowParses(row)
           /\ total_time' =
                 (IF RowTime(row).ok THEN total_time + RowTime(row).val
                  ELSE total_time)
           /\ total_memory' =
                 (IF RowTime(row).ok /\ RowMemory(row).ok
                  THEN total_memory + RowMemory(row).val ELSE total_memory)
    /\ pc' = "aborted"
    /\ UNCHANGED <<g_metrics, csvExists, csvLines, pos, total_energy, count,
                   restOfRun>>

\* mutant of LoadFinish: the averages are stored without testing count
LoadFinishUnguarded ==
    /\ pc = "rows"
    /\ pos >= Len(csvLines)
    /\ g_metrics' =
          [g_metrics EXCEPT
              !.avg_computation_time_ms = DDiv(FromInt(total_time), FromInt(count)),
              !.avg_memory_kb = DDiv(FromInt(total_memory), FromInt(count)),
              !.avg_energy_mj = DDiv(FromInt(total_energy), FromInt(count))]
    /\ pc' = "returned"
    /\ UNCHANGED <<loadVars, restOfRun>>

\* lines 57-66: the averages replace the defaults when a row was counted
LoadFinish ==
    /\ pc = "rows"
    /\ pos >= Len(csvLines)
    /\ g_metrics' =
          (IF count > 0
           THEN [g_metrics EXCEPT
                    !.avg_computation_time_ms = DDiv(FromInt(total_time), FromInt(count)),
                    !.avg_memory_kb = DDiv(FromInt(total_memory), FromInt(count)),
                    !.avg_energy_mj = DDiv(FromInt(total_energy), FromInt(count))]
           ELSE g_metrics)
    /\ pc' = "returned"
    /\ UNCHANGED <<loadVars, restOfRun>>

LoadMetricsFromCSV ==
    \/ LoadOpenFail
    \/ LoadOpenOk
    \/ LoadSkipHeader
    \/ LoadRowValid
    \/ LoadRowShort
    \/ LoadRowThrow
    \/ LoadFinish

(***************************************************************************)
(* main: command line, topology, client schedule                           *)
(***************************************************************************)
\* nIoTNodes and the packet counters are uint32_t; the model's values stay
\* far below 2^32, so no counter wraps
NodeCounts == 0..MaxNodes
SimTimes   == {FromInt(0), FromInt(3), FromInt(10)}

\* mutant of StartTime: the per-node stagger is left out
StartTimeNoStagger(k, m) ==
    DAdd(FromInt(2), DDiv(m.avg_computation_time_ms, FromInt(1000)))

\* line 144: 2.0 + i * 0.5 + g_metrics.avg_computation_time_ms / 1000.0
StartTime(k, m) ==
    DAdd(DAdd(FromInt(2), DMul(FromInt(k), Rat(1, 2))),
         DDiv(m.avg_computation_time_ms, FromInt(1000)))

\* line 141: the PacketSize attribute
PacketSize(k, m) == m.public_data_bytes

\* lines 85-133: nodes, links, addresses, routing, the UDP server and its
\* Rx trace; none of it touches the state the model keeps
SetupTopology ==
    /\ pc = "returned"
    /\ pc' = "clients"
    /\ i' = 0
    /\ UNCHANGED <<g_metrics, counters, loadVars, nIoTNodes, simTime,
                   clientStart, clientSize, engineVars, aggVars, writerVars>>

\* mutant of ScheduleClient: the sent counter is not incremented
ScheduleClientNoCount ==
    /\ pc = "clients"
    /\ i < nIoTNodes
    /\ clientSize' = Append(clientSize, PacketSize(i, g_metrics))
    /\ clientStart' = Append(clientStart, StartTime(i, g_metrics))
    /\ i' = i + 1
    /\ UNCHANGED <<pc, g_metrics, counters, loadVars, nIoTNodes,
                   simTime, engineVars, aggVars, writerVars>>

\* lines 135-151, one iteration of the client loop
ScheduleClient ==
    /\ pc = "clients"
    /\ i < nIoTNodes
    /\ clientSize' = Append(clientSize, PacketSize(i, g_metrics))
    /\ clientStart' = Append(clientStart, StartTime(i, g_metrics))
    /\ g_totalPacketsSent' = g_totalPacketsSent + 1
    /\ i' = i + 1
    /\ UNCHANGED <<pc, g_metrics, g_totalPacketsReceived, loadVars, nIoTNodes,
                   simTime, engineVars, aggVars, writerVars>>

\* lines 153-168: the loop is over, FlowMonitor is installed, Simulator::Run
StartRun ==
    /\ pc = "clients"
    /\ i >= nIoTNodes
    /\ pc' = "run"
    /\ UNCHANGED <<g_metrics, counters, loadVars, mainVars, engineVars,
                   aggVars, writerVars>>

(***************************************************************************)
(* The simulation engine between Simulator::Run and its return.  Each      *)
(* client sends MaxPackets = 1 packet, and only when its start time lies   *)
(* before the stop time.  Whether the packet is seen by the FlowMonitor    *)
(* probe at the receiver, and whether the UdpServer's Rx trace fires for   *)
(* it, is the engine's business: either may or may not happen, once.       *)
(***************************************************************************)
NoRx == [rxBytes |-> 0, delaySum |-> FromInt(0), seen |-> FALSE]
\* rxBytes counts the payload, or the payload with its UDP and IP headers
FlowBytes(k) == {clientSize[k + 1], clientSize[k + 1] + 28}
FlowDelays == {Rat(1, 100), Rat(3, 100)}

EngineSend(k) ==
    /\ pc = "run"
    /\ k \notin flowTx
    /\ DLess(clientStart[k + 1], simTime)
    /\ flowTx' = flowTx \cup {k}
    /\ UNCHANGED <<pc, g_metrics, counters, loadVars, mainVars, flowRx, appRx,
                   aggVars, writerVars>>

EngineFlowRx(k) ==
    /\ pc = "run"
    /\ k \in flowTx
    /\ ~flowRx[k].seen
    /\ \E b \in FlowBytes(k), d \in FlowDelays :
          flowRx' = [flowRx EXCEPT ![k] = [rxBytes |-> b, delaySum |-> d,
                                           seen |-> TRUE]]
    /\ UNCHANGED <<pc, g_metrics, counters, loadVars, mainVars, flowTx, appRx,
                   aggVars, writerVars>>

\* lines 68-72, invoked by the UdpServer's Rx trace
RxCallback(k) ==
    /\ pc = "run"
    /\ k \in flowTx
    /\ k \notin appRx
    /\ appRx' = appRx \cup {k}
    /\ g_totalPacketsReceived' = g_totalPacketsReceived + 1
    /\ UNCHANGED <<pc, g_metrics, g_totalPacketsSent, loadVars, mainVars,
                   flowTx, flowRx, aggVars, writerVars>>

\* std::map<FlowId, FlowStats>: one flow per client that sent, in FlowId
\* order (flow ids are given in the order of the first packets)
RECURSIVE FlowStatsFrom(_)
FlowStatsFrom(k) ==
    IF k >= nIoTNodes THEN <<>>
    ELSE (IF k \in flowTx
          THEN << [txPackets |-> 1,
                   rxPackets |-> IF flowRx[k].seen THEN 1 ELSE 0,
                   delaySum  |-> flowRx[k].delaySum,
                   rxBytes   |-> flowRx[k].rxBytes] >>
          ELSE <<>>) \o FlowStatsFrom(k + 1)

\* lines 168-178: Simulator::Run returns, the flow statistics are fetched
\* and the totals start at 0
CollectStats ==
    /\ pc = "run"
    /\ pc' = "stats"
    /\ stats' = FlowStatsFrom(0)
    /\ fi' = 0
    /\ totalThroughput' = FromInt(0)
    /\ totalDelay' = FromInt(0)
    /\ totalRxPackets' = 0
    /\ totalTxPackets' = 0
    /\ UNCHANGED <<g_metrics, counters, loadVars, mainVars, engineVars,
                   avgDelay, pdr, totalEnergy, divZero, writerVars>>

(***************************************************************************)
(* main: flow statistics                                                   *)
(***************************************************************************)
\* line 186: flow.second.rxBytes * 8.0 / simTime / 1000.0
FlowThroughput(f, t) ==
    DDiv(DDiv(DMul(FromInt(f.rxBytes), FromInt(8)), t), FromInt(1000))

\* line 184
FlowCounts(f) == f.rxPackets > 0

\* lines 180-188, one iteration of the loop over stats
AggregateFlow ==
    /\ pc = "stats"
    /\ fi < Len(stats)
    /\ LET f == stats[fi + 1]
       IN  /\ totalTxPackets' = totalTxPackets + f.txPackets
           /\ totalRxPackets' = totalRxPackets + f.rxPackets
           /\ totalDelay' =
                 (IF FlowCounts(f) THEN DAdd(totalDelay, f.delaySum)
                  ELSE totalDelay)
           /\ totalThroughput' =
                 (IF FlowCounts(f)
                  THEN DAdd(totalThroughput, FlowThroughput(f, simTime))
                  ELSE totalThroughput)
           /\ divZero' = (divZero \/ (FlowCounts(f) /\ simTime[1] = 0))
    /\ fi' = fi + 1
    /\ UNCHANGED <<pc, g_metrics, counters, loadVars, mainVars, engineVars,
                   stats, avgDelay, pdr, totalEnergy, writerVars>>

\* the conditions of the two conditional expressions of lines 190, 191
DelayGuard(rx) == rx > 0
PdrGuard(tx)   == tx > 0

\* line 190
AvgDelayOf(delay, rx) ==
    IF DelayGuard(rx)
    THEN DMul(DDiv(delay, FromInt(rx)), FromInt(1000))
    ELSE FromInt(0)

\* line 191
PdrOf(rx, tx) ==
    IF PdrGuard(tx)
    THEN DMul(DDiv(FromInt(rx), FromInt(tx)), FromInt(100))
    ELSE FromInt(0)

\* mutant of TotalEnergyOf: the energy is charged per received packet
TotalEnergyOfReceived(sent, m) ==
    DMul(FromInt(g_totalPacketsReceived), m.avg_energy_mj)

\* line 192
TotalEnergyOf(sent, m) == DMul(FromInt(sent), m.avg_energy_mj)

\* lines 190-203
AggregateFinish ==
    /\ pc = "stats"
    /\ fi >= Len(stats)
    /\ avgDelay' = AvgDelayOf(totalDelay, totalRxPackets)
    /\ pdr' = PdrOf(totalRxPackets, totalTxPackets)
    /\ totalEnergy' = TotalEnergyOf(g_totalPacketsSent, g_metrics)
    /\ divZero' = (\/ divZero
                   \/ (DelayGuard(totalRxPackets) /\ totalRxPackets = 0)
                   \/ (PdrGuard(totalTxPackets) /\ totalTxPackets = 0))
    /\ pc' = "save"
    /\ UNCHANGED <<g_metrics, counters, loadVars, mainVars, engineVars, stats,
                   fi, totalThroughput, totalDelay, totalRxPackets,
                   totalTxPackets, writerVars>>

(***************************************************************************)
(* main: "Save CSV"                                                        *)
(***************************************************************************)
CsvHeader ==
    [kind |-> "header",
     text |-> "nodes,packets_sent,packets_received,pdr,avg_delay_ms,throughput_kbps,total_energy_mj,computation_ms,memory_kb"]

\* lines 214-217: the data row; run is not part of the text, it records for
\* the model which run wrote the line
DataRow(run, nodes, sent, received, p, delay, thr, energy, m) ==
    [kind |-> "row", run |-> run,
     nodes |-> nodes, packets_sent |-> sent, packets_received |-> received,
     pdr |-> p, avg_delay_ms |-> delay, throughput_kbps |-> thr,
     total_energy_mj |-> energy,
     computation_ms |-> m.avg_computation_time_ms,
     memory_kb |-> DMul(m.avg_memory_kb, FromInt(nodes))]

\* mutant of IsNewFile: the header is written by every run
IsNewFileAlways(position) == TRUE

\* line 207: newFile = (outfile.tellp() == 0).  A stream opened with
\* std::ios::app is positioned at the end of the file when it is opened, and
\* tellp() reports that position
IsNewFile(position) == position = 0

\* lines 209-212
HeaderOutput(nf) == IF nf THEN <<CsvHeader>> ELSE <<>>

\* mutant of Flushed: the stream is not in append mode and replaces the file
FlushedOverFile(file, buffer) == buffer

\* what close() flushes: in append mode it lands at the end of the file
Flushed(file, buffer) == file \o buffer

\* lines 205-220 for the run whose statistics the model computed
SaveCSV ==
    /\ pc = "save"
    /\ LET row == DataRow(0, nIoTNodes, g_totalPacketsSent,
                          g_totalPacketsReceived, pdr, avgDelay,
                          totalThroughput, totalEnergy, g_metrics)
           nf  == IsNewFile(Len(resultsFile))
       IN  resultsFile' = Flushed(resultsFile, Append(HeaderOutput(nf), row))
    /\ resultsExists' = TRUE
    /\ pc' = "done"
    /\ UNCHANGED <<g_metrics, counters, loadVars, mainVars, engineVars, aggVars,
                   wpc, newFile, outbuf, filePos, runOrder>>

(***************************************************************************)
(* Several runs of the program appending to the same results file: each    *)
(* run r goes through the statements of lines 206-219 one at a time.       *)
(***************************************************************************)
Runs == 1..NumRuns

\* the rows a run may write: one or two nodes, nothing received
RunRows(r) ==
    { DataRow(r, n, n, 0, PdrOf(0, n), FromInt(0), FromInt(0),
              TotalEnergyOf(n, DefaultMetrics), DefaultMetrics)
        : n \in 1..2 }

writerRest == <<pc, g_metrics, counters, loadVars, mainVars, engineVars, aggVars>>

\* line 206: std::ofstream outfile("lwe_ns3_results.csv", std::ios::app)
WriterOpen(r) ==
    /\ wpc[r] = "start"
    /\ wpc' = [wpc EXCEPT ![r] = "open"]
    /\ resultsExists' = TRUE
    /\ filePos' = [filePos EXCEPT ![r] = Len(resultsFile)]
    /\ runOrder' = Append(runOrder, r)
    /\ UNCHANGED <<resultsFile, newFile, outbuf, writerRest>>

\* line 207
WriterTellp(r) ==
    /\ wpc[r] = "open"
    /\ wpc' = [wpc EXCEPT ![r] = "decided"]
    /\ newFile' = [newFile EXCEPT ![r] = IsNewFile(filePos[r])]
    /\ UNCHANGED <<resultsExists, resultsFile, outbuf, filePos, runOrder, writerRest>>

\* lines 209-212: the header goes to the stream's buffer
WriterHeader(r) ==
    /\ wpc[r] = "decided"
    /\ wpc' = [wpc EXCEPT ![r] = "headed"]
    /\ outbuf' = [outbuf EXCEPT ![r] = @ \o HeaderOutput(newFile[r])]
    /\ UNCHANGED <<resultsExists, resultsFile, newFile, filePos, runOrder, writerRest>>

\* lines 214-217: the data row goes to the stream's buffer
WriterRow(r) ==
    /\ wpc[r] = "headed"
    /\ wpc' = [wpc EXCEPT ![r] = "written"]
    /\ \E row \in RunRows(r) : outbuf' = [outbuf EXCEPT ![r] = Append(@, row)]
    /\ UNCHANGED <<resultsExists, resultsFile, newFile, filePos, runOrder, writerRest>>

\* line 219: close() flushes the buffer with one append
WriterClose(r) ==
    /\ wpc[r] = "written"
    /\ wpc' = [wpc EXCEPT ![r] = "closed"]
    /\ resultsFile' = Flushed(resultsFile, outbuf[r])
    /\ outbuf' = [outbuf EXCEPT ![r] = <<>>]
    /\ UNCHANGED <<resultsExists, newFile, filePos, runOrder, writerRest>>

InProgress(r) == wpc[r] \in {"open", "decided", "headed", "written"}
Quiescent == \A r \in Runs : ~InProgress(r)

\* a run that starts only when no other run is between open and close
WriterOpenAlone(r) ==
    /\ Quiescent
    /\ WriterOpen(r)

(***************************************************************************)
(* Initial states                                                          *)
(***************************************************************************)
InitLoad ==
    /\ g_metrics = DefaultMetrics
    /\ pos = 0
    /\ total_time = 0
    /\ total_memory = 0
    /\ total_energy = 0
    /\ count = 0

InitCounters ==
    /\ g_totalPacketsSent = 0
    /\ g_totalPacketsReceived = 0

InitMain ==
    /\ i = 0
    /\ clientStart = <<>>
    /\ clientSize = <<>>

InitEngine ==
    /\ flowTx = {}
    /\ flowRx = [k \in 0..(nIoTNodes - 1) |-> NoRx]
    /\ appRx = {}

InitAgg ==
    /\ fi = 0
    /\ totalThroughput = FromInt(0)
    /\ totalDelay = FromInt(0)
    /\ totalRxPackets = 0
    /\ totalTxPackets = 0
    /\ avgDelay = FromInt(0)
    /\ pdr = FromInt(0)
    /\ totalEnergy = FromInt(0)
    /\ divZero = FALSE

InitWriters ==
    /\ wpc = [r \in Runs |-> "start"]
    /\ newFile = [r \in Runs |-> FALSE]
    /\ outbuf = [r \in Runs |-> <<>>]
    /\ filePos = [r \in Runs |-> 0]
    /\ runOrder = <<>>

\* a results file left by an earlier run
EarlierResults ==
    << CsvHeader,
       DataRow(0, 2, 2, 2, FromInt(100), FromInt(10), Rat(3328, 125),
               FromInt(1), DefaultMetrics) >>

\* the profile CSVs the whole-program specification is run on
MainCsvFiles ==
    { <<>>,
      << Join(<< <<"r">>, <<"t">>, <<"m">>, <<"k">>, <<"p">>, <<"e">> >>),
         Join(<< <<"a">>, <<"1">>, <<"1","0">>, <<"b">>, <<"c">>, <<"2">> >>),
         Join(<< <<"a">>, <<"1">>, <<"2">> >>),
         Join(<< <<"a">>, <<"3">>, <<"2","0">>, <<"b">>, <<"c">>, <<"4">> >>) >>,
      << Join(<< <<"r">>, <<"t">>, <<"m">>, <<"k">>, <<"p">>, <<"e">> >>),
         Join(<< <<"a">>, <<"x">>, <<"2">>, <<"b">>, <<"c">>, <<"3">> >>) >> }

\* the program starts: the command line is parsed (lines 75-81)
Init ==
    /\ pc = "open"
    /\ csvExists \in BOOLEAN
    /\ csvLines \in MainCsvFiles
    /\ (~csvExists => csvLines = <<>>)
    /\ nIoTNodes \in NodeCounts
    /\ simTime \in SimTimes
    /\ resultsExists \in BOOLEAN
    /\ resultsFile \in {<<>>, EarlierResults}
    /\ (~resultsExists => resultsFile = <<>>)
    /\ stats = <<>>
    /\ InitLoad /\ InitCounters /\ InitMain /\ InitEngine /\ InitAgg
    /\ InitWriters

Next ==
    \/ LoadOpenFail
    \/ LoadOpenOk
    \/ LoadSkipHeader
    \/ LoadRowValid
    \/ LoadRowShort
    \/ LoadRowThrow
    \/ LoadFinish
    \/ SetupTopology
    \/ ScheduleClient
    \/ StartRun
    \/ \E k \in 0..(nIoTNodes - 1) : EngineSend(k)
    \/ \E k \in 0..(nIoTNodes - 1) : EngineFlowRx(k)
    \/ \E k \in 0..(nIoTNodes - 1) : RxCallback(k)
    \/ CollectStats
    \/ AggregateFlow
    \/ AggregateFinish
    \/ SaveCSV

Spec == Init /\ [][Next]_vars

\* LoadMetricsFromCSV alone, over every CSV of the model
InitLoadOnly ==
    /\ pc = "open"
    /\ csvExists \in BOOLEAN
    /\ csvLines \in CsvFiles
    /\ (~csvExists => csvLines = <<>>)
    /\ nIoTNodes = 0
    /\ simTime = FromInt(10)
    /\ resultsExists = FALSE
    /\ resultsFile = <<>>
    /\ stats = <<>>
    /\ InitLoad /\ InitCounters /\ InitMain /\ InitEngine /\ InitAgg
    /\ InitWriters

NextLoad == LoadMetricsFromCSV

SpecLoad == InitLoadOnly /\ [][NextLoad]_vars

\* the statistics block of main alone, over arbitrary flow records
FlowRecords ==
    { [txPackets |-> t, rxPackets |-> r,
       delaySum |-> DMul(FromInt(r), Rat(1, 100)),
       rxBytes |-> r * 16640] : t \in 0..2, r \in 0..2 }

InitStats ==
    /\ pc = "stats"
    /\ csvExists = FALSE
    /\ csvLines = <<>>
    /\ nIoTNodes \in 0..2
    /\ simTime \in SimTimes
    /\ resultsExists = FALSE
    /\ resultsFile = <<>>
    /\ stats \in SeqsUpTo(FlowRecords, MaxFlows)
    /\ InitLoad /\ InitMain /\ InitEngine /\ InitAgg /\ InitWriters
    /\ g_totalPacketsSent = nIoTNodes
    /\ g_totalPacketsReceived = 0

NextStats ==
    \/ AggregateFlow
    \/ AggregateFinish

SpecStats == InitStats /\ [][NextStats]_vars

\* the runs appending to the results file
InitAppend ==
    /\ pc = "writers"
    /\ csvExists = FALSE
    /\ csvLines = <<>>
    /\ nIoTNodes = 0
    /\ simTime = FromInt(10)
    /\ resultsExists \in BOOLEAN
    /\ resultsFile = <<>>
    /\ stats = <<>>
    /\ InitLoad /\ InitCounters /\ InitMain /\ InitEngine /\ InitAgg
    /\ InitWriters

NextSequential ==
    \/ \E r \in Runs : WriterOpenAlone(r)
    \/ \E r \in Runs : WriterTellp(r)
    \/ \E r \in Runs : WriterHeader(r)
    \/ \E r \in Runs : WriterRow(r)
    \/ \E r \in Runs : WriterClose(r)

SpecSequential == InitAppend /\ [][NextSequential]_vars

NextConcurrent ==
    \/ \E r \in Runs : WriterOpen(r)
    \/ \E r \in Runs : WriterTellp(r)
    \/ \E r \in Runs : WriterHeader(r)
    \/ \E r \in Runs : WriterRow(r)
    \/ \E r \in Runs : WriterClose(r)

SpecConcurrent == InitAppend /\ [][NextConcurrent]_vars

(***************************************************************************)
(* Properties                                                              *)
(***************************************************************************)
Last(q) == q[Len(q)]
HeaderCount(file) == Cardinality({k \in 1..Len(file) : file[k].kind = "header"})
RowsOf(file, r) ==
    {k \in 1..Len(file) : file[k].kind = "row" /\ file[k].run = r}
RowCount(file) == Cardinality({k \in 1..Len(file) : file[k].kind = "row"})

\* C1: after any number of runs of the results-writing step that do not
\* overlap, on a file that starts absent or empty, the file holds the header
\* once, as its first line, followed by one data row per run in run order;
\* a run that opens a non-empty file puts no header in its output.
C1_HeaderOnceRowsInRunOrder ==
    /\ (Quiescent /\ runOrder # <<>>) =>
          /\ Len(resultsFile) = Len(runOrder) + 1
          /\ resultsFile[1] = CsvHeader
          /\ HeaderCount(resultsFile) = 1
          /\ \A k \in 1..Len(runOrder) :
                /\ resultsFile[k + 1].kind = "row"
                /\ resultsFile[k + 1].run = runOrder[k]
    /\ \A r \in Runs :
          (wpc[r] \in {"headed", "written"} /\ filePos[r] > 0) =>
             \A k \in 1..Len(outbuf[r]) : outbuf[r][k].kind # "header"

C1_Witness ==
    /\ Quiescent
    /\ Len(runOrder) >= 2
    /\ runOrder[1] > runOrder[2]
    /\ Len(resultsFile) = Len(runOrder) + 1

\* C8 as stated: when two runs interleave their steps on an initially empty
\* file, the file ends with the header exactly once, as its first line, and
\* one data row per run.
C8_HeaderOnceWhenInterleaved ==
    (Quiescent /\ Len(runOrder) = 2) =>
       /\ resultsFile[1] = CsvHeader
       /\ HeaderCount(resultsFile) = 1
       /\ RowCount(resultsFile) = 2

\* C8 amended: when runs interleave, the file starts with the header and
\* holds one data row per run, each run's lines kept together; the header is
\* written by every run that opened the file while it was still empty, so
\* it appears once for each such run (at least once).
C8_HeaderPerRunThatOpenedEmpty ==
    (Quiescent /\ runOrder # <<>>) =>
       /\ resultsFile[1] = CsvHeader
       /\ RowCount(resultsFile) = Len(runOrder)
       /\ \A k \in 1..Len(runOrder) :
             Cardinality(RowsOf(resultsFile, runOrder[k])) = 1
       /\ HeaderCount(resultsFile) =
             Cardinality({k \in 1..Len(runOrder) : filePos[runOrder[k]] = 0})
       /\ HeaderCount(resultsFile) >= 1
       /\ \A k \in 1..Len(resultsFile) :
             resultsFile[k].kind = "header" =>
                (k < Len(resultsFile) /\ resultsFile[k + 1].kind = "row")

C8_Witness ==
    /\ Quiescent
    /\ Len(runOrder) = 2
    /\ HeaderCount(resultsFile) = 2
    /\ RowCount(resultsFile) = 2

\* ---- the CSV as the specification reads it: a line is cut at every ',',
\* ---- empty fields included, and a field is a number when all of it is
RECURSIVE FieldsFrom(_, _, _, _)
FieldsFrom(line, k, item, row) ==
    IF k > Len(line) THEN Append(row, item)
    ELSE IF line[k] = ","
         THEN FieldsFrom(line, k + 1, <<>>, Append(row, item))
         ELSE FieldsFrom(line, k + 1, Append(item, line[k]), row)

FieldsOf(line) == FieldsFrom(line, 1, <<>>, <<>>)
HasSixFields(line) == Len(FieldsOf(line)) >= 6

IsNumber(f) == Len(f) >= 1 /\ \A k \in 1..Len(f) : IsDigit(f[k])

RECURSIVE NumberOf(_)
NumberOf(f) ==
    IF Len(f) = 0 THEN 0
    ELSE 10 * NumberOf(SubSeq(f, 1, Len(f) - 1)) + DigitVal(f[Len(f)])

NumericFieldsOk(line) ==
    LET f == FieldsOf(line)
    IN  IsNumber(f[2]) /\ IsNumber(f[3]) /\ IsNumber(f[6])

WellFormedCsv(lines) ==
    \A k \in 2..Len(lines) : HasSixFields(lines[k]) => NumericFieldsOk(lines[k])

DataRowsRead == {k \in 2..pos : HasSixFields(csvLines[k])}

RECURSIVE ColumnSum(_, _)
ColumnSum(rows, col) ==
    IF rows = {} THEN 0
    ELSE LET k == CHOOSE x \in rows : TRUE
         IN  NumberOf(FieldsOf(csvLines[k])[col + 1]) + ColumnSum(rows \ {k}, col)

\* avg is the quotient sum / n
IsQuotient(avg, sum, n) == avg[2] > 0 /\ avg[1] * n = sum * avg[2]

\* C2: a data row of at least 6 fields whose field 1, 2 or 5 is no number is
\* skipped: the load goes on and completes, and the sums and the count hold
\* the well-formed rows only.
C2_MalformedRowSkipped ==
    /\ pc # "aborted"
    /\ (pc \in {"rows", "returned"} /\ csvExists) =>
          count = Cardinality({k \in DataRowsRead : NumericFieldsOk(csvLines[k])})

\* C3: for a CSV whose numeric fields are well-formed, the first line is
\* ignored, count is the number of later rows with at least 6 fields, the
\* sums are those of fields 1, 2 and 5 over these rows, rows with fewer
\* fields change nothing, and when count is positive the three averages are
\* the sums divided by count.
C3_AveragesOverValidRows ==
    (csvExists /\ WellFormedCsv(csvLines)) =>
       /\ pc # "aborted"
       /\ pc \in {"rows", "returned"} =>
             /\ count = Cardinality(DataRowsRead)
             /\ total_time = ColumnSum(DataRowsRead, 1)
             /\ total_memory = ColumnSum(DataRowsRead, 2)
             /\ total_energy = ColumnSum(DataRowsRead, 5)
       /\ (pc = "returned" /\ count > 0) =>
             /\ pos = Len(csvLines)
             /\ IsQuotient(g_metrics.avg_computation_time_ms, total_time, count)
             /\ IsQuotient(g_metrics.avg_memory_kb, total_memory, count)
             /\ IsQuotient(g_metrics.avg_energy_mj, total_energy, count)

C3_Witness ==
    /\ pc = "returned"
    /\ csvExists
    /\ WellFormedCsv(csvLines)
    /\ Len(csvLines) = 3
    /\ ~HasSixFields(csvLines[2])
    /\ HasSixFields(csvLines[3])
    /\ count = 1
    /\ g_metrics.avg_memory_kb = FromInt(20)

NoValidRow(lines) == \A k \in 2..Len(lines) : ~HasSixFields(lines[k])

\* C4: when the CSV cannot be opened, or holds no row of 6 fields, the load
\* returns (it does not abort) with the profile equal to the defaults; and
\* key_size_bytes and public_data_bytes keep their defaults in every case.
C4_DefaultsKept ==
    /\ g_metrics.key_size_bytes = 256
    /\ g_metrics.public_data_bytes = 16640
    /\ (~csvExists \/ NoValidRow(csvLines)) =>
          /\ pc # "aborted"
          /\ g_metrics = DefaultMetrics
          /\ g_metrics.avg_computation_time_ms = <<1, 2>>
          /\ g_metrics.avg_memory_kb = <<12, 1>>
          /\ g_metrics.avg_energy_mj = <<1, 2>>

C4_Witness ==
    /\ pc = "returned"
    /\ csvExists
    /\ Len(csvLines) = 3
    /\ NoValidRow(csvLines)
    /\ g_metrics = DefaultMetrics

\* C5: no division by zero is evaluated by the statistics block, whatever
\* the flow records and the simulation time; with no packet received pdr,
\* average delay and throughput are 0, and with no packet sent pdr is 0.
C5_EveryDivisionGuarded ==
    /\ ~divZero
    /\ IsFinite(totalThroughput)
    /\ pc = "save" =>
          /\ totalRxPackets = 0 =>
                (pdr = FromInt(0) /\ avgDelay = FromInt(0)
                   /\ totalThroughput = FromInt(0))
          /\ totalTxPackets = 0 => pdr = FromInt(0)

\* C6: the total energy reported is (planned sends) * (energy per operation),
\* a value fixed by the node count and the profile alone, whatever was
\* delivered.
C6_EnergyFromPlannedSends ==
    LET e == g_metrics.avg_energy_mj
    IN  /\ pc \in {"save", "done"} =>
              /\ IsFinite(totalEnergy)
              /\ totalEnergy[1] * e[2] = nIoTNodes * e[1] * totalEnergy[2]
        /\ pc = "done" => Last(resultsFile).total_energy_mj = totalEnergy

C6_Witness ==
    /\ pc = "done"
    /\ nIoTNodes = 2
    /\ totalTxPackets = 2
    /\ totalRxPackets = 0
    /\ g_totalPacketsReceived = 0
    /\ Last(resultsFile).total_energy_mj = FromInt(6)

\* C7: node k is given start time 2.0 + k*0.5 + computation_ms/1000, so each
\* node starts exactly 0.5 s after the one before it, and every node is given
\* the profile's public_data_bytes as its packet size.
C7_StaggeredStartsSamePayload ==
    LET c == g_metrics.avg_computation_time_ms
    IN  /\ Len(clientSize) = Len(clientStart)
        /\ \A k \in 1..Len(clientStart) :
              LET t == clientStart[k]
              IN  /\ t[2] > 0
                  /\ t[1] * 2000 * c[2]
                       = t[2] * (4000 * c[2] + 1000 * c[2] * (k - 1) + 2 * c[1])
                  /\ clientSize[k] = g_metrics.public_data_bytes
        /\ \A k \in 1..(Len(clientStart) - 1) :
              LET a == clientStart[k]
                  b == clientStart[k + 1]
              IN  /\ a[1] * b[2] < b[1] * a[2]
                  /\ 2 * (b[1] * a[2] - a[1] * b[2]) = a[2] * b[2]

C7_Witness ==
    /\ Len(clientStart) = 3
    /\ g_metrics.avg_computation_time_ms = FromInt(2)
    /\ clientStart[3] = <<1501, 500>>

\* C9: the packets_received field of the row written to the results file is
\* the sum of rxPackets over the flow records, the total pdr is computed
\* from, whatever the Rx callback counted.
C9_RowReceivedFromFlowRecords ==
    pc = "done" => Last(resultsFile).packets_received = totalRxPackets

\* The state part of C10: the sent counter has gone up by one per scheduled
\* node and equals the node count from the start of the engine run on; the
\* received counter is 0 until the run; always received <= sent <= nodes,
\* and the row written has packets_sent = nodes and
\* packets_received <= packets_sent.
C10_CounterState ==
    /\ g_totalPacketsReceived <= g_totalPacketsSent
    /\ g_totalPacketsSent <= nIoTNodes
    /\ pc = "clients" => g_totalPacketsSent = i
    /\ pc \in {"open", "header", "rows", "returned", "aborted", "clients"} =>
          g_totalPacketsReceived = 0
    /\ pc \in {"run", "stats", "save", "done"} => g_totalPacketsSent = nIoTNodes
    /\ pc = "done" =>
          /\ Last(resultsFile).nodes = nIoTNodes
          /\ Last(resultsFile).packets_sent = Last(resultsFile).nodes
          /\ Last(resultsFile).packets_received <= Last(resultsFile).packets_sent

C10_CounterSteps ==
    /\ g_totalPacketsSent' # g_totalPacketsSent =>
          (pc = "clients" /\ g_totalPacketsSent' = g_totalPacketsSent + 1)
    /\ g_totalPacketsReceived' # g_totalPacketsReceived =>
          (pc = "run" /\ pc' = "run"
             /\ g_totalPacketsReceived' = g_totalPacketsReceived + 1)
    /\ (pc = "clients" /\ i' # i) => g_totalPacketsSent' = g_totalPacketsSent + 1

\* C10: the counter invariant holds in every state, and every step changes
\* the counters only as stated (sent by +1 in the client loop, received by
\* +1 during the engine run).
C10_CountersOrdered == [](C10_CounterState) /\ [][C10_CounterSteps]_vars

C10_Witness ==
    /\ pc = "done"
    /\ nIoTNodes = 3
    /\ g_totalPacketsSent = 3
    /\ g_totalPacketsReceived = 2
    /\ totalRxPackets = 2

====
